---- MODULE Spec2Model ----
(***************************************************************************)
(* Durable job queue, rate limiter and AI router of the agent server:      *)
(* src/agent/queue-database.js (store, rate limiter, router) and           *)
(* src/agent/queue-worker.js (worker).  Every SQL statement is one atomic  *)
(* step on the single module-level sqlite connection `db`; the code        *)
(* between two statements of one call runs in the statement's callback.    *)
(***************************************************************************)
EXTENDS Integers, Sequences, FiniteSets, TLC

(* ------------------------------------------------------------------ *)
(* Bounds of the model                                                 *)
(* ------------------------------------------------------------------ *)
MaxJobs == 2
MaxTicks == 1

(* ------------------------------------------------------------------ *)
(* Program constants                                                   *)
(* ------------------------------------------------------------------ *)
StaleTimeoutMin == 10
DefaultPriority == 1
DefaultMaxAttempts == 3
Concurrency == 1
ServiceBackoffMin == 15
QuotaBackoffMin == 60
AuthBackoffMin == 4 * 60

MinutesPerDay == 24 * 60
\* the program may be started at any time of day: shortly after and shortly
\* before midnight UTC
StartTimes == {5, MinutesPerDay - 5}
TickSteps == {StaleTimeoutMin}
Elapsed == MaxTicks * StaleTimeoutMin

Workers == {"w1", "w2"}
Enqueuers == {"e1", "e2"}
\* direct callers of checkAndIncrementRateLimit
Clients == {"c1", "c2", "c3"}
Callers == Workers \cup Clients
Files == {"f1"}
Payloads == {"blocks", "noblocks"}
Priorities == {1}
MaxAttemptsChoices == {1, 2}

Null == <<>>
Some(x) == <<x>>
Val(o) == o[1]

(* ------------------------------------------------------------------ *)
(* Timestamps as the texts the code stores and compares                *)
(* ------------------------------------------------------------------ *)
\* CURRENT_TIMESTAMP: 'YYYY-MM-DD HH:MM:SS'
SqlText(t) == [fmt |-> "sql", t |-> t]
\* Date.prototype.toISOString(): 'YYYY-MM-DDTHH:MM:SS.sssZ'
IsoText(t) == [fmt |-> "iso", t |-> t]
DayOf(t) == t \div MinutesPerDay
\* SQLite compares two TEXT values byte by byte: the ten date characters
\* first, then ' ' (0x20) of the sql form against 'T' (0x54) of the iso form.
TextLess(a, b) ==
    IF DayOf(a.t) # DayOf(b.t) THEN DayOf(a.t) < DayOf(b.t)
    ELSE IF a.fmt = b.fmt THEN a.t < b.t
    ELSE a.fmt = "sql"

GenerateContentHash(content) == content

\* extractOptimizedContent throws unless the payload carries blocks with text
HasExtractableContent(payload) == payload = "blocks"

(* ------------------------------------------------------------------ *)
(* Registry: providers and models as seeded by the configuration       *)
(* ------------------------------------------------------------------ *)
Providers ==
    [pA |-> [priority |-> 1, enabled |-> TRUE],
     pB |-> [priority |-> 2, enabled |-> TRUE]]

Models ==
    [mA |-> [provider_id |-> "pA", per_minute_limit |-> 1, per_day_limit |-> 2,
             enabled |-> TRUE],
     mB |-> [provider_id |-> "pB", per_minute_limit |-> 2, per_day_limit |-> 2,
             enabled |-> TRUE],
     mC |-> [provider_id |-> "pA", per_minute_limit |-> 2, per_day_limit |-> 2,
             enabled |-> TRUE]]

ProviderIds == DOMAIN Providers
ModelIds == DOMAIN Models
\* m.id ASC on the model ids of the registry
ModelIdOrder == <<"mA", "mB", "mC">>

Periods == {"minute", "day"}

VARIABLES
    now,    \* the clock, in minutes since the epoch day of the model
    db,     \* the tables of queue.db as the single connection sees them
    started,\* the time the process was started
    env,    \* process.env: the variables the worker reads
    qw,     \* QueueWorker: isRunning and the position of a stop() call
    registry, \* the rows of the models table
    tx,     \* the connection's open transaction: the tables at its BEGIN
    uuids,  \* number of job ids crypto.randomUUID() has handed to inserts
    enq,    \* enqueueJob calls in flight, one per producer
    wk,     \* QueueWorker: position of processingLoop / processJob
    rl      \* checkAndIncrementRateLimit calls in flight, one per caller

vars == <<now, started, env, registry, qw, db, tx, uuids, enq, wk, rl>>

jobs == db.jobs
job_attempts == db.job_attempts
rate_counters == db.rate_counters
\* the rows of the provider_backoff table
ProviderBackoffRows == db.provider_backoff

\* the provider_backoff row of each provider, if it has one
\* the ids of the rows of the models table
RegisteredIds == {registry[k].id : k \in 1..Len(registry)}

provider_backoff ==
    [p \in ProviderIds |->
        IF \E r \in ProviderBackoffRows : r.provider_id = p
        THEN Some(CHOOSE r \in ProviderBackoffRows : r.provider_id = p)
        ELSE Null]


(* ------------------------------------------------------------------ *)
(* jobs table                                                          *)
(* ------------------------------------------------------------------ *)
JobRows == 1..Len(jobs)

ActiveStates == {"queued", "processing"}

\* idx_jobs_unique_active: do the rows `js` respect the partial unique index
UniqueActiveOkOff(js) == TRUE
UniqueActiveOk(js) ==
    \A i, k \in 1..Len(js) :
        (i # k /\ js[i].state \in ActiveStates /\ js[k].state \in ActiveStates)
            => ~(js[i].dedupe_key = js[k].dedupe_key
                 /\ js[i].content_hash = js[k].content_hash)

NewJobRow(id, fileId, content, priority, maxAttempts) ==
    [id |-> id, file_id |-> fileId, dedupe_key |-> fileId,
     content_hash |-> GenerateContentHash(content), payload |-> content,
     priority |-> priority, state |-> "queued", attempts |-> 0,
     max_attempts |-> maxAttempts, error |-> Null, result |-> Null,
     created_at |-> SqlText(now), locked_at |-> Null, worker_id |-> Null]

\* checkQuery of enqueueJob
CheckQueryRows(dedupeKey, contentHash) ==
    {i \in JobRows : /\ jobs[i].dedupe_key = dedupeKey
                     /\ jobs[i].content_hash = contentHash
                     /\ jobs[i].state \in {"queued", "processing", "succeeded"}}

HasJob(jobId) == \E i \in JobRows : jobs[i].id = jobId
JobById(jobId) == jobs[CHOOSE i \in JobRows : jobs[i].id = jobId]

(* ------------------------------------------------------------------ *)
(* enqueueJob                                                          *)
(* ------------------------------------------------------------------ *)
EnqIdle == [pc |-> "idle", file |-> Null, content |-> Null, priority |-> 0,
            maxAttempts |-> 0, jobId |-> Null, status |-> Null, result |-> Null]

\* enqueueJob(f, c, p, m) called: the check query runs (db.get: the first
\* matching row, in an order the query, having no ORDER BY, leaves open)
EnqueueCheck(e, f, c, p, m) ==
    /\ enq[e].pc = "idle"
    /\  LET found == CheckQueryRows(f, GenerateContentHash(c)) IN
        IF found # {}
        THEN \E i \in found : LET ex == jobs[i] IN
             enq' = [enq EXCEPT ![e] =
                [EnqIdle EXCEPT !.pc = "done", !.file = Some(f), !.content = Some(c),
                    !.jobId = Some(ex.id),
                    !.status = Some(IF ex.state = "succeeded"
                                    THEN "already_completed" ELSE "already_queued"),
                    !.result = IF ex.state = "succeeded" THEN ex.result ELSE Null]]
        ELSE enq' = [enq EXCEPT ![e] =
                [EnqIdle EXCEPT !.pc = "insert", !.file = Some(f), !.content = Some(c),
                    !.priority = p, !.maxAttempts = m]]
    /\ UNCHANGED <<now, started, env, registry, qw, db, tx, uuids, wk, rl>>

\* the INSERT statement runs: a row is added, or the unique index refuses it
EnqueueInsert(e) ==
    /\ enq[e].pc = "insert"
    /\ LET id == uuids + 1
           row == NewJobRow(id, Val(enq[e].file), Val(enq[e].content),
                            enq[e].priority, enq[e].maxAttempts)
           js == Append(jobs, row) IN
        IF UniqueActiveOk(js)
        THEN /\ uuids < MaxJobs
             /\ db' = [db EXCEPT !.jobs = js]
             /\ uuids' = uuids + 1
             /\ enq' = [enq EXCEPT ![e] = [EnqIdle EXCEPT !.pc = "done",
                            !.file = enq[e].file, !.content = enq[e].content,
                            !.jobId = Some(id), !.status = Some("enqueued")]]
        ELSE /\ UNCHANGED <<db, uuids>>
             /\ enq' = [enq EXCEPT ![e].pc = "constraint"]
    /\ UNCHANGED <<now, started, env, registry, qw, tx, wk, rl>>

\* after SQLITE_CONSTRAINT the check query runs again
EnqueueRecheck(e) ==
    /\ enq[e].pc = "constraint"
    /\ LET found == CheckQueryRows(Val(enq[e].file),
                                   GenerateContentHash(Val(enq[e].content)))
           ret == [EnqIdle EXCEPT !.pc = "done", !.file = enq[e].file,
                                  !.content = enq[e].content] IN
        IF found # {}
        THEN \E i \in found :
             enq' = [enq EXCEPT ![e] = [ret EXCEPT
                        !.jobId = Some(jobs[i].id),
                        !.status = Some("already_queued")]]
        ELSE enq' = [enq EXCEPT ![e] = [ret EXCEPT !.status = Some("rejected")]]
    /\ UNCHANGED <<now, started, env, registry, qw, db, tx, uuids, wk, rl>>

\* the promise is settled and the producer may call again
EnqueueReturn(e) ==
    /\ enq[e].pc = "done"
    /\ enq' = [enq EXCEPT ![e] = EnqIdle]
    /\ UNCHANGED <<now, started, env, registry, qw, db, tx, uuids, wk, rl>>

(* ------------------------------------------------------------------ *)
(* claimNextJob                                                        *)
(* ------------------------------------------------------------------ *)
WkIdle == [pc |-> "loop", sel |-> Null, job |-> Null, err |-> Null,
           cands |-> <<>>, idx |-> 0, outcome |-> Null, attemptNo |-> Null,
           summary |-> Null, status |-> Null]

\* the worker after start(): isRunning = true, stop() not called, activeJobs
\* is the empty Set of the constructor
Started == [isRunning |-> TRUE, stop |-> "none", activeJobs |-> {}]

RlIdle == [pc |-> "idle", model |-> Null, period |-> Null, window |-> 0,
           counter |-> Null, res |-> Null]

\* the queued rows in no particular order
SelectQueryRowsUnordered == {i \in JobRows : jobs[i].state = "queued"}

\* ORDER BY priority DESC, created_at ASC LIMIT 1 over the queued rows;
\* rows that tie are returned in an order SQL leaves open
SelectQueryRows ==
    LET q == {i \in JobRows : jobs[i].state = "queued"} IN
    {i \in q : \A k \in q :
        \/ jobs[i].priority > jobs[k].priority
        \/ /\ jobs[i].priority = jobs[k].priority
           /\ ~TextLess(jobs[k].created_at, jobs[i].created_at)}

\* the columns of the claimed row that processJob reads
JobObject(row) ==
    [id |-> row.id, payload |-> row.payload, attempts |-> row.attempts,
     max_attempts |-> row.max_attempts]

\* this.activeJobs.size: processJob has added the job and not yet deleted it
ActiveJobsSize(w) == Cardinality(qw[w].activeJobs)

\* a loop that claims whatever the number of active jobs
BelowCapacityOff(w) == TRUE

\* if (this.activeJobs.size < this.concurrency)
BelowCapacity(w) == ActiveJobsSize(w) < Concurrency

\* processingLoop: running and below capacity, claimNextJob's SELECT runs
ClaimSelect(w) ==
    /\ wk[w].pc = "loop"
    /\ qw[w].isRunning
    /\ BelowCapacity(w)
    /\ SelectQueryRows # {}
    /\ \E i \in SelectQueryRows :
        wk' = [wk EXCEPT ![w].pc = "selected", ![w].sel = Some(JobObject(jobs[i]))]
    /\ UNCHANGED <<now, started, env, registry, qw, db, tx, uuids, enq, rl>>

\* WHERE id = ? AND state = 'queued'
ClaimGuardOff(row, jobId) == row.id = jobId
ClaimGuard(row, jobId) == row.id = jobId /\ row.state = "queued"

\* the claiming UPDATE runs: with a change the job is returned, else null
ClaimUpdate(w) ==
    /\ wk[w].pc = "selected"
    /\ LET j == Val(wk[w].sel).id IN
        IF \E i \in JobRows : ClaimGuard(jobs[i], j)
        THEN /\ db' = [db EXCEPT !.jobs =
                    [i \in JobRows |->
                        IF ClaimGuard(jobs[i], j)
                        THEN [jobs[i] EXCEPT !.state = "processing",
                                             !.locked_at = Some(SqlText(now)),
                                             !.worker_id = Some(w)]
                        ELSE jobs[i]]]
             /\ wk' = [wk EXCEPT ![w].pc = "claimed", ![w].sel = Null,
                                 ![w].job = wk[w].sel]
        ELSE /\ db' = db
             /\ wk' = [wk EXCEPT ![w] = WkIdle]
    /\ UNCHANGED <<now, started, env, registry, qw, tx, uuids, enq, rl>>

\* processJob up to its first await: activeJobs.add, extractOptimizedContent
ProcessStart(w) ==
    /\ wk[w].pc = "claimed"
    /\ IF HasExtractableContent(Val(wk[w].job).payload)
       THEN wk' = [wk EXCEPT ![w].pc = "config"]
       ELSE wk' = [wk EXCEPT ![w].pc = "fail",
                             ![w].err = Some("NoExtractableContent")]
    /\ qw' = [qw EXCEPT ![w].activeJobs = @ \cup {Val(wk[w].job).id}]
    /\ UNCHANGED <<now, started, env, registry, db, tx, uuids, enq, rl>>

(* ------------------------------------------------------------------ *)
(* updateJobStatus                                                     *)
(* ------------------------------------------------------------------ *)
\* an UPDATE that would leave the lock columns as they are
UpdateJobStatusKeepLock(row, state, result, error) ==
    [row EXCEPT !.state = state, !.result = result, !.error = error]

\* SET state = ?, result = ?, error = ?, locked_at = NULL, worker_id = NULL
UpdateJobStatusClear(row, state, result, error) ==
    [row EXCEPT !.state = state, !.result = result, !.error = error,
                !.locked_at = Null, !.worker_id = Null]

\* the jobs rows after the UPDATE; the statement fails as a whole when the
\* partial unique index refuses the new state
UpdateJobStatus(jobId, state, result, error) ==
    LET js == [i \in JobRows |->
                IF jobs[i].id = jobId
                THEN UpdateJobStatusClear(jobs[i], state, result, error)
                ELSE jobs[i]] IN
    IF UniqueActiveOk(js) THEN js ELSE jobs

\* a retry decision that does not count the cycle that just failed
ShouldRetryUncounted(job) == job.attempts < job.max_attempts

\* processJob's catch: shouldRetry = job.attempts + 1 < job.max_attempts,
\* on the job object claimNextJob returned
ShouldRetry(job) == job.attempts + 1 < job.max_attempts

\* catch block of processJob: requeue or dead, then finally
ProcessFail(w) ==
    /\ wk[w].pc = "fail"
    /\ LET job == Val(wk[w].job) IN
        db' = [db EXCEPT !.jobs = UpdateJobStatus(job.id,
                    IF ShouldRetry(job) THEN "queued" ELSE "dead", Null, wk[w].err)]
    /\ wk' = [wk EXCEPT ![w] = WkIdle]
    /\ qw' = [qw EXCEPT ![w].activeJobs = @ \ {Val(wk[w].job).id}]
    /\ UNCHANGED <<now, started, env, registry, tx, uuids, enq, rl>>

\* outcomes completeJob is called with
Outcomes == {"succeeded", "queued", "failed", "dead"}

\* a holder of a claimed job calls updateJobStatus(jobId, outcome, result, error)
StoreComplete(w) ==
    /\ wk[w].pc = "claimed"
    /\ \E o \in Outcomes :
        db' = [db EXCEPT !.jobs = UpdateJobStatus(Val(wk[w].job).id, o,
                    IF o = "succeeded" THEN Some("OK") ELSE Null,
                    IF o = "succeeded" THEN Null ELSE Some("error"))]
    /\ wk' = [wk EXCEPT ![w] = WkIdle]
    /\ UNCHANGED <<now, started, env, registry, qw, tx, uuids, enq, rl>>

(* ------------------------------------------------------------------ *)
(* cleanupStaleJobs, run by performCleanup on its timer                *)
(* ------------------------------------------------------------------ *)
IsStale(row, timeoutMinutes) ==
    /\ row.state = "processing"
    /\ row.locked_at # Null
    /\ TextLess(Val(row.locked_at), IsoText(now - timeoutMinutes))

CleanupStaleJobs(timeoutMinutes) ==
    [i \in JobRows |->
        IF IsStale(jobs[i], timeoutMinutes)
        THEN [jobs[i] EXCEPT !.state = "failed", !.error = Some("Job timed out"),
                             !.locked_at = Null, !.worker_id = Null]
        ELSE jobs[i]]

PerformCleanup ==
    /\ db' = [db EXCEPT !.jobs = CleanupStaleJobs(StaleTimeoutMin)]
    /\ db' # db
    /\ UNCHANGED <<now, started, env, registry, qw, tx, uuids, enq, wk, rl>>

Tick ==
    /\ \E d \in TickSteps : now + d <= started + Elapsed /\ now' = now + d
    /\ UNCHANGED <<started, env, registry, qw, db, tx, uuids, enq, wk, rl>>

(* ------------------------------------------------------------------ *)
(* getAvailableModels                                                  *)
(* ------------------------------------------------------------------ *)
\* provider_backoff row with until > CURRENT_TIMESTAMP (TEXT comparison)
Gated(p) ==
    /\ provider_backoff[p] # Null
    /\ TextLess(SqlText(now), Val(provider_backoff[p]).until)

ModelIdLess(a, b) ==
    \E i, k \in 1..Len(ModelIdOrder) :
        i < k /\ ModelIdOrder[i] = a /\ ModelIdOrder[k] = b

\* ORDER BY p.priority ASC, m.id ASC
ModelBefore(a, b) ==
    LET pa == Providers[Models[a].provider_id].priority
        pb == Providers[Models[b].provider_id].priority IN
    pa < pb \/ (pa = pb /\ ModelIdLess(a, b))

OrderedModelIds ==
    CHOOSE s \in [1..Cardinality(ModelIds) -> ModelIds] :
        /\ \A m \in ModelIds : \E i \in DOMAIN s : s[i] = m
        /\ \A i, k \in DOMAIN s : i < k => ModelBefore(s[i], s[k])

IsAvailable(m) ==
    /\ m \in RegisteredIds
    /\ Models[m].enabled
    /\ Providers[Models[m].provider_id].enabled
    /\ ~Gated(Models[m].provider_id)

\* a listing that leaves the WHERE clause out
GetAvailableModelsUnfiltered == OrderedModelIds

GetAvailableModels == SelectSeq(OrderedModelIds, IsAvailable)

(* ------------------------------------------------------------------ *)
(* checkAndIncrementRateLimit, statement by statement                  *)
(* ------------------------------------------------------------------ *)
\* a day window that is not taken from the date of the call
WindowStartOneDay(period) == IF period = "minute" THEN now ELSE 0

\* windowStart: the minute, or the UTC date, of Date.now()
WindowStart(period) == IF period = "minute" THEN now ELSE DayOf(now)

RlCall(m, period) ==
    [pc |-> "begin", model |-> Some(m), period |-> Some(period),
     window |-> WindowStart(period), counter |-> Null, res |-> Null]

CounterRows(m, period, window) ==
    {i \in 1..Len(rate_counters) :
        /\ rate_counters[i].model_id = m
        /\ rate_counters[i].period = period
        /\ rate_counters[i].window_start = window}

\* BEGIN TRANSACTION on the shared connection; inside an open transaction
\* the statement fails and, having no callback, its failure reaches no code
\* of the call: the call goes on (UnhandledError is the other outcome)
RLBegin(c) ==
    /\ rl[c].pc = "begin"
    /\ tx' = IF tx = Null THEN Some(db) ELSE tx
    /\ rl' = [rl EXCEPT ![c].pc = "select"]
    /\ UNCHANGED <<now, started, env, registry, qw, db, uuids, enq, wk>>

\* SELECT * FROM rate_counters WHERE model_id, period, window_start (db.get:
\* the first matching row, in an order the query leaves open)
RLSelect(c) ==
    /\ rl[c].pc = "select"
    /\ LET rows == CounterRows(Val(rl[c].model), Val(rl[c].period), rl[c].window) IN
        IF rows = {}
        THEN rl' = [rl EXCEPT ![c].pc = "insert"]
        ELSE \E i \in rows :
             rl' = [rl EXCEPT ![c].pc = "limit",
                        ![c].counter = Some([id |-> i,
                            used_count |-> rate_counters[i].used_count])]
    /\ UNCHANGED <<now, started, env, registry, qw, db, tx, uuids, enq, wk>>

\* no counter row: INSERT ... used_count = 1
RLInsert(c) ==
    /\ rl[c].pc = "insert"
    /\ db' = [db EXCEPT !.rate_counters = Append(rate_counters,
                [model_id |-> Val(rl[c].model), period |-> Val(rl[c].period),
                 window_start |-> rl[c].window, used_count |-> 1])]
    /\ rl' = [rl EXCEPT ![c].pc = "commit",
                        ![c].res = Some([allowed |-> TRUE, count |-> 1])]
    /\ UNCHANGED <<now, started, env, registry, qw, tx, uuids, enq, wk>>

ModelLimit(m, period) ==
    IF period = "minute" THEN Models[m].per_minute_limit ELSE Models[m].per_day_limit

\* counter.used_count >= limit
LimitReachedOff(used, limit) == used > limit
LimitReached(used, limit) == used >= limit

\* the limits query returns: refuse, or go on to the UPDATE
RLLimit(c) ==
    /\ rl[c].pc = "limit"
    /\ LET limit == ModelLimit(Val(rl[c].model), Val(rl[c].period))
           used == Val(rl[c].counter).used_count IN
        IF LimitReached(used, limit)
        THEN rl' = [rl EXCEPT ![c].pc = "rollback",
                        ![c].res = Some([allowed |-> FALSE, count |-> used])]
        ELSE rl' = [rl EXCEPT ![c].pc = "update"]
    /\ UNCHANGED <<now, started, env, registry, qw, db, tx, uuids, enq, wk>>

\* ROLLBACK: everything the connection did since the BEGIN is undone
RLRollback(c) ==
    /\ rl[c].pc = "rollback"
    /\ IF tx # Null THEN db' = Val(tx) /\ tx' = Null ELSE UNCHANGED <<db, tx>>
    /\ rl' = [rl EXCEPT ![c].pc = "done"]
    /\ UNCHANGED <<now, started, env, registry, qw, uuids, enq, wk>>

\* the failure of a statement run without a callback (BEGIN inside an open
\* transaction, ROLLBACK outside one) is raised as an 'error' event nobody
\* listens to: unless the embedding process survives it, the process ends,
\* the open transaction is rolled back and every call in flight is lost
UnhandledError(c) ==
    /\ \/ rl[c].pc = "begin" /\ tx # Null
       \/ rl[c].pc = "rollback" /\ tx = Null
    /\ db' = IF tx # Null THEN Val(tx) ELSE db
    /\ tx' = Null
    /\ rl' = [x \in DOMAIN rl |->
                IF rl[x].pc \in {"idle", "done"} THEN rl[x]
                ELSE [RlIdle EXCEPT !.pc = "lost"]]
    /\ wk' = [x \in DOMAIN wk |-> WkIdle]
    /\ qw' = [x \in DOMAIN qw |-> [qw[x] EXCEPT !.activeJobs = {}]]
    /\ enq' = [x \in DOMAIN enq |-> EnqIdle]
    /\ UNCHANGED <<now, started, env, registry, uuids>>

\* UPDATE rate_counters SET used_count = used_count + 1 WHERE id = ?
RLUpdate(c) ==
    /\ rl[c].pc = "update"
    /\ LET id == Val(rl[c].counter).id IN
        db' = [db EXCEPT !.rate_counters =
                [i \in 1..Len(rate_counters) |->
                    IF i = id
                    THEN [rate_counters[i] EXCEPT !.used_count = @ + 1]
                    ELSE rate_counters[i]]]
    /\ rl' = [rl EXCEPT ![c].pc = "commit",
                ![c].res = Some([allowed |-> TRUE,
                                 count |-> Val(rl[c].counter).used_count + 1])]
    /\ UNCHANGED <<now, started, env, registry, qw, tx, uuids, enq, wk>>

\* COMMIT; with no transaction open it fails and the call rejects
RLCommit(c) ==
    /\ rl[c].pc = "commit"
    /\ IF tx # Null
       THEN /\ tx' = Null
            /\ rl' = [rl EXCEPT ![c].pc = "done"]
       ELSE /\ tx' = tx
            /\ rl' = [rl EXCEPT ![c].pc = "done",
                        ![c].res = Some([allowed |-> FALSE, count |-> 0])]
    /\ UNCHANGED <<now, started, env, registry, qw, db, uuids, enq, wk>>

\* a direct call of checkAndIncrementRateLimit(modelId, period)
ClientCall(c) ==
    /\ rl[c].pc = "idle"
    /\ \E m \in RegisteredIds, p \in Periods : rl' = [rl EXCEPT ![c] = RlCall(m, p)]
    /\ UNCHANGED <<now, started, env, registry, qw, db, tx, uuids, enq, wk>>

(* ------------------------------------------------------------------ *)
(* processJob and AIRouter.summarizeContent                            *)
(* ------------------------------------------------------------------ *)
UpstreamOutcomes == {"ok", "empty", "e503"}

\* the errors callAIModel can throw, by what handleModelError reads of them:
\* error.status (0: the error carries no status) and the trigger words that
\* error.message.toLowerCase() contains ('unauthorized' contains 'auth')
UpstreamErrors ==
    [empty        |-> [status |-> 0,   words |-> {}],
     timeout      |-> [status |-> 0,   words |-> {}],
     quota        |-> [status |-> 0,   words |-> {"quota"}],
     ratelimit    |-> [status |-> 0,   words |-> {"rate limit"}],
     text429      |-> [status |-> 0,   words |-> {"429"}],
     auth         |-> [status |-> 0,   words |-> {"auth"}],
     apikey       |-> [status |-> 0,   words |-> {"api key"}],
     unauthorized |-> [status |-> 0,   words |-> {"unauthorized", "auth"}],
     unavailable  |-> [status |-> 0,   words |-> {"service unavailable"}],
     invalid      |-> [status |-> 400, words |-> {}],
     e401         |-> [status |-> 401, words |-> {}],
     e403         |-> [status |-> 403, words |-> {}],
     e429         |-> [status |-> 429, words |-> {}],
     e500         |-> [status |-> 500, words |-> {}],
     e501         |-> [status |-> 501, words |-> {}],
     e502         |-> [status |-> 502, words |-> {}],
     e503         |-> [status |-> 503, words |-> {}],
     e504         |-> [status |-> 504, words |-> {}]]

\* every answer of the upstream: a text, or one of the errors
AllOutcomes == {"ok"} \cup DOMAIN UpstreamErrors
CallbackOutcomes == {"200", "204", "500"}

\* step 4 of processJob: configManager.getConfigurationSummary()
ConfigSummary(w) ==
    /\ wk[w].pc = "config"
    /\ IF Len(GetAvailableModels) = 0
       THEN wk' = [wk EXCEPT ![w].pc = "fail", ![w].err = Some("NoModels")]
       ELSE wk' = [wk EXCEPT ![w].pc = "route"]
    /\ UNCHANGED <<now, started, env, registry, qw, db, tx, uuids, enq, rl>>

\* summarizeContent: the candidates are read once, then the first
\* candidate's minute check is called
RouteSnapshot(w) ==
    /\ wk[w].pc = "route"
    /\ LET avail == GetAvailableModels IN
        IF Len(avail) = 0
        THEN /\ wk' = [wk EXCEPT ![w].pc = "fail", ![w].err = Some("NoModels")]
             /\ rl' = rl
        ELSE /\ wk' = [wk EXCEPT ![w].pc = "minute", ![w].cands = avail, ![w].idx = 1]
             /\ rl' = [rl EXCEPT ![w] = RlCall(avail[1], "minute")]
    /\ UNCHANGED <<now, started, env, registry, qw, db, tx, uuids, enq>>

\* `continue`: the next candidate's minute check, or the throw after the loop
NextCandidate(w, wrec) ==
    IF wrec.idx < Len(wrec.cands)
    THEN /\ wk' = [wk EXCEPT ![w] = [wrec EXCEPT !.pc = "minute", !.idx = @ + 1,
                                        !.outcome = Null, !.attemptNo = Null]]
         /\ rl' = [rl EXCEPT ![w] = RlCall(wrec.cands[wrec.idx + 1], "minute")]
    ELSE /\ wk' = [wk EXCEPT ![w] = [wrec EXCEPT !.pc = "fail", !.cands = <<>>,
                        !.idx = 0, !.outcome = Null, !.attemptNo = Null,
                        !.err = Some("AllCandidatesFailed")]]
         /\ rl' = [rl EXCEPT ![w] = RlIdle]

\* the minute check returned
MinuteResult(w) ==
    /\ wk[w].pc = "minute"
    /\ rl[w].pc = "done"
    /\ IF Val(rl[w].res).allowed
       THEN /\ wk' = [wk EXCEPT ![w].pc = "day"]
            /\ rl' = [rl EXCEPT ![w] = RlCall(wk[w].cands[wk[w].idx], "day")]
       ELSE NextCandidate(w, wk[w])
    /\ UNCHANGED <<now, started, env, registry, qw, db, tx, uuids, enq>>

\* the day check returned: callAIModel sends the request to the upstream
DayResult(w) ==
    /\ wk[w].pc = "day"
    /\ rl[w].pc = "done"
    /\ IF Val(rl[w].res).allowed
       THEN /\ wk' = [wk EXCEPT ![w].pc = "upstream"]
            /\ rl' = [rl EXCEPT ![w] = RlIdle]
       ELSE NextCandidate(w, wk[w])
    /\ UNCHANGED <<now, started, env, registry, qw, db, tx, uuids, enq>>

\* incrementJobAttempt whose UPDATE leaves the counter alone
IncrementAttemptsNone(row) == row

\* incrementJobAttempt, first statement: attempts = attempts + 1
IncrementAttempts(row) == [row EXCEPT !.attempts = @ + 1]

\* the upstream answered (text, empty text, or an error) and
\* incrementJobAttempt's UPDATE runs
UpstreamAnswer(w, o) ==
    /\ wk[w].pc = "upstream"
    /\ wk' = [wk EXCEPT ![w].pc = "inc_select", ![w].outcome = Some(o)]
    /\ db' = [db EXCEPT !.jobs =
                [i \in JobRows |->
                    IF jobs[i].id = Val(wk[w].job).id
                    THEN IncrementAttempts(jobs[i]) ELSE jobs[i]]]
    /\ UNCHANGED <<now, started, env, registry, qw, tx, uuids, enq, rl>>

UpstreamReturn(w) == \E o \in UpstreamOutcomes : UpstreamAnswer(w, o)

\* the same with every error of UpstreamErrors among the answers
UpstreamReturnAny(w) == \E o \in AllOutcomes : UpstreamAnswer(w, o)

\* incrementJobAttempt, second statement: SELECT attempts; without the row
\* the callback throws and the call never settles
IncSelect(w) ==
    /\ wk[w].pc = "inc_select"
    /\ IF HasJob(Val(wk[w].job).id)
       THEN wk' = [wk EXCEPT ![w].pc = "inc_insert",
                        ![w].attemptNo = Some(JobById(Val(wk[w].job).id).attempts)]
       ELSE wk' = [wk EXCEPT ![w].pc = "thrown"]
    /\ UNCHANGED <<now, started, env, registry, qw, db, tx, uuids, enq, rl>>

\* errorMessage.includes(word)
Includes(e, word) == word \in e.words

\* handleModelError: the first class that matches decides the backoff
HandleModelError(e) ==
    IF \/ Includes(e, "quota") \/ Includes(e, "rate limit")
       \/ Includes(e, "429") \/ e.status = 429
    THEN Some([minutes |-> QuotaBackoffMin, reason |-> "Rate limit exceeded"])
    ELSE IF \/ Includes(e, "auth") \/ Includes(e, "api key")
            \/ Includes(e, "unauthorized") \/ e.status = 401
    THEN Some([minutes |-> AuthBackoffMin, reason |-> "Authentication failed"])
    ELSE IF \/ Includes(e, "service unavailable") \/ Includes(e, "503")
            \/ Includes(e, "502") \/ Includes(e, "500") \/ e.status >= 500
    THEN Some([minutes |-> ServiceBackoffMin, reason |-> "Service unavailable"])
    ELSE Null

\* handleModelError without any of its backoff classes
BackoffMinutesNone(o) == Null

\* handleModelError: minutes of provider backoff for an upstream failure
BackoffMinutes(o) ==
    IF HandleModelError(UpstreamErrors[o]) = Null THEN Null
    ELSE Some(Val(HandleModelError(UpstreamErrors[o])).minutes)

\* incrementJobAttempt, third statement: the job_attempts row; then the
\* summary is returned, or handleModelError looks at the error
IncInsert(w) ==
    /\ wk[w].pc = "inc_insert"
    /\ LET m == wk[w].cands[wk[w].idx]
           o == Val(wk[w].outcome) IN
        /\ db' = [db EXCEPT !.job_attempts = Append(job_attempts,
                    [job_id |-> Val(wk[w].job).id, attempt_no |-> Val(wk[w].attemptNo),
                     provider_id |-> Models[m].provider_id, model_id |-> m,
                     success |-> (o = "ok"),
                     error |-> IF o = "ok" THEN Null ELSE Some(o)])]
        /\ IF o = "ok"
           THEN /\ wk' = [wk EXCEPT ![w].pc = "callback", ![w].summary = Some("OK"),
                            ![w].cands = <<>>, ![w].idx = 0, ![w].outcome = Null,
                            ![w].attemptNo = Null]
                /\ rl' = rl
           ELSE IF BackoffMinutes(o) # Null
           THEN /\ wk' = [wk EXCEPT ![w].pc = "backoff"]
                /\ rl' = rl
           ELSE NextCandidate(w, wk[w])
    /\ UNCHANGED <<now, started, env, registry, qw, tx, uuids, enq>>

\* an INSERT into a table that keeps the row the provider already has
SetProviderBackoffKeep(p, until, reason) ==
    ProviderBackoffRows
        \cup {[provider_id |-> p, until |-> until, reason |-> reason]}

\* setProviderBackoff: INSERT OR REPLACE INTO provider_backoff; provider_id
\* is the table's primary key
SetProviderBackoff(p, until, reason) ==
    {r \in ProviderBackoffRows : r.provider_id # p}
        \cup {[provider_id |-> p, until |-> until, reason |-> reason]}

Backoff(w) ==
    /\ wk[w].pc = "backoff"
    /\ LET m == wk[w].cands[wk[w].idx] IN
        db' = [db EXCEPT !.provider_backoff =
                SetProviderBackoff(Models[m].provider_id,
                    IsoText(now + Val(BackoffMinutes(Val(wk[w].outcome)))),
                    Val(HandleModelError(UpstreamErrors[Val(wk[w].outcome)])).reason)]
    /\ NextCandidate(w, wk[w])
    /\ UNCHANGED <<now, started, env, registry, qw, tx, uuids, enq>>

\* response.status === 200
CallbackSuccess(status) == status = "200"

\* the value of INTERNAL_SECRET that sendSummaryToClient refuses
DefaultSecret == "development-internal-secret-for-mvp-only"

\* the values process.env.INTERNAL_SECRET may have: unset, the default of
\* the development setup, a secret of the deployment
SecretValues == {Null, Some(DefaultSecret), Some("secret")}

\* a check that takes any value of INTERNAL_SECRET
SecretRefusedNever(secret) == FALSE

\* !INTERNAL_SECRET || INTERNAL_SECRET === 'development-internal-secret-for-mvp-only'
SecretRefused(secret) == secret = Null \/ secret = Some(DefaultSecret)

\* sendSummaryToClient returns: it threw before the request (no usable
\* secret), or the callback request ended; on success
\* updateJobStatus(succeeded) runs
CallbackReturn(w) ==
    /\ wk[w].pc = "callback"
    /\ IF SecretRefused(env.INTERNAL_SECRET)
       THEN /\ db' = db
            /\ wk' = [wk EXCEPT ![w].pc = "fail", ![w].summary = Null,
                           ![w].err = Some("CallbackFailed")]
            /\ qw' = qw
       ELSE \E status \in CallbackOutcomes :
        IF CallbackSuccess(status)
        THEN /\ db' = [db EXCEPT !.jobs = UpdateJobStatus(Val(wk[w].job).id,
                            "succeeded", wk[w].summary, Null)]
             /\ wk' = [wk EXCEPT ![w] = WkIdle]
             /\ qw' = [qw EXCEPT ![w].activeJobs = @ \ {Val(wk[w].job).id}]
        ELSE /\ db' = db
             /\ wk' = [wk EXCEPT ![w].pc = "fail", ![w].summary = Null,
                            ![w].status = Some(status),
                            ![w].err = Some("CallbackFailed")]
             /\ qw' = qw
    /\ UNCHANGED <<now, started, env, registry, tx, uuids, enq, rl>>

(* ------------------------------------------------------------------ *)
\* the models row upsertModel writes for a model of the configuration
ModelRow(m) ==
    [id |-> m, provider_id |-> Models[m].provider_id,
     per_minute_limit |-> Models[m].per_minute_limit,
     per_day_limit |-> Models[m].per_day_limit, enabled |-> Models[m].enabled]

\* a models row must reference a row of the providers table
ForeignKeyOff(row) == TRUE

\* PRAGMA foreign_keys = ON; FOREIGN KEY (provider_id) REFERENCES providers (id)
ForeignKeyOk(row) == row.provider_id \in ProviderIds

\* upsertModel: INSERT OR REPLACE INTO models; the row of the same id, if
\* any, is deleted and the new row inserted, unless the foreign key fails
UpsertModel(row) ==
    /\ registry' = IF ForeignKeyOk(row)
                   THEN Append(SelectSeq(registry, LAMBDA r : r.id # row.id), row)
                   ELSE registry
    /\ UNCHANGED <<now, started, env, qw, db, tx, uuids, enq, wk, rl>>

\* the process after start-up, with the given models configured and
\* INTERNAL_SECRET being one of the given values
BootEnv(configured, secrets) ==
    /\ env \in {[INTERNAL_SECRET |-> s] : s \in secrets}
    /\ registry = [k \in 1..Len(SelectSeq(OrderedModelIds, LAMBDA m : m \in configured))
                    |-> ModelRow(SelectSeq(OrderedModelIds,
                                           LAMBDA m : m \in configured)[k])]
    /\ now \in StartTimes
    /\ started = now
    /\ db = [jobs |-> <<>>, job_attempts |-> <<>>, rate_counters |-> <<>>,
             provider_backoff |-> {}]
    /\ tx = Null
    /\ uuids = 0
    /\ enq = [e \in Enqueuers |-> EnqIdle]
    /\ wk = [w \in Workers |-> WkIdle]
    /\ rl = [c \in Callers |-> RlIdle]
    /\ qw = [w \in Workers |-> Started]

\* the same with INTERNAL_SECRET set to a secret of the deployment
Boot(configured) == BootEnv(configured, {Some("secret")})

\* two providers with one model each
Init == Boot({"mA", "mB"})

\* the same without a usable INTERNAL_SECRET
InitNoSecret == BootEnv({"mA", "mB"}, SecretValues \ {Some("secret")})

\* a configuration with a single provider and a single model
InitOneModel == Boot({"mA"})

\* a single provider with two of its models
InitOneProvider == Boot({"mA", "mC"})

EnqueueStep(e) ==
    \/ \E f \in Files, c \in Payloads, p \in Priorities, m \in MaxAttemptsChoices :
            EnqueueCheck(e, f, c, p, m)
    \/ EnqueueInsert(e)
    \/ EnqueueRecheck(e)
    \/ EnqueueReturn(e)

RateLimitStep(c) ==
    \/ RLBegin(c)
    \/ RLSelect(c)
    \/ RLInsert(c)
    \/ RLLimit(c)
    \/ RLRollback(c)
    \/ RLUpdate(c)
    \/ RLCommit(c)

WorkerStep(w) ==
    \/ ConfigSummary(w)
    \/ RouteSnapshot(w)
    \/ MinuteResult(w)
    \/ DayResult(w)
    \/ UpstreamReturn(w)
    \/ IncSelect(w)
    \/ IncInsert(w)
    \/ Backoff(w)
    \/ CallbackReturn(w)
    \/ ProcessFail(w)
    \/ RateLimitStep(w)

\* the whole program: one producer, one worker of concurrency 1
Next ==
    \/ \E e \in {"e1"} : EnqueueStep(e)
    \/ \E w \in {"w1"} : ClaimSelect(w) \/ ClaimUpdate(w) \/ ProcessStart(w)
    \/ \E w \in {"w1"} : WorkerStep(w)
    \/ PerformCleanup

Spec == Init /\ [][Next]_vars

\* the Store under producers and job holders calling its operations
NextStore ==
    \/ \E e \in Enqueuers, f \in Files, c \in Payloads :
            EnqueueCheck(e, f, c, DefaultPriority, DefaultMaxAttempts)
    \/ \E e \in Enqueuers : EnqueueInsert(e) \/ EnqueueRecheck(e) \/ EnqueueReturn(e)
    \/ \E w \in Workers : ClaimSelect(w) \/ ClaimUpdate(w) \/ StoreComplete(w)
    \/ PerformCleanup

SpecStore == Init /\ [][NextStore]_vars

\* producers alone
NextEnqueue ==
    \/ \E e \in Enqueuers, f \in Files, c \in Payloads :
            EnqueueCheck(e, f, c, DefaultPriority, DefaultMaxAttempts)
    \/ \E e \in Enqueuers : EnqueueInsert(e) \/ EnqueueRecheck(e) \/ EnqueueReturn(e)

SpecEnqueue == Init /\ [][NextEnqueue]_vars

\* direct callers of the rate limiter, overlapping
NextRate ==
    \/ \E c \in Clients : ClientCall(c)
    \/ \E c \in Clients : RateLimitStep(c)
    \/ \E c \in Clients : UnhandledError(c)
    \/ Tick

SpecRate == Init /\ [][NextRate]_vars

NoCallInFlight == \A c \in Clients : rl[c].pc \in {"idle", "done"}

\* direct callers of the rate limiter, one call at a time
NextRateSeq ==
    \/ \E c \in Clients : NoCallInFlight /\ ClientCall(c)
    \/ \E c \in Clients : RateLimitStep(c)
    \/ Tick

SpecRateSeq == Init /\ [][NextRateSeq]_vars

\* the worker's steps are taken as long as they are possible: the loop polls
\* and every statement it issues is run by the connection
SpecFair == Init /\ [][Next]_vars /\ WF_vars(\E w \in {"w1"} : ClaimSelect(w))
                /\ WF_vars(\E w \in {"w1"} : ClaimUpdate(w) \/ ProcessStart(w))
                /\ WF_vars(\E w \in {"w1"} : WorkerStep(w))

(* ------------------------------------------------------------------ *)
(* Properties                                                          *)
(* ------------------------------------------------------------------ *)
SameKey(a, b) == a.dedupe_key = b.dedupe_key /\ a.content_hash = b.content_hash

\* C1 (D1): in every reachable state at most one job per
\* (dedupe_key, content_hash) is queued or processing.
C1_D1 ==
    \A i, k \in JobRows :
        (i < k /\ SameKey(jobs[i], jobs[k]))
            => ~(jobs[i].state \in {"queued", "processing"}
                 /\ jobs[k].state \in {"queued", "processing"})

\* the unique index has refused an insert while an older row of the same key
\* is no longer active and a newer one is
C1_Witness ==
    /\ \E e \in Enqueuers : enq[e].pc = "constraint"
    /\ \E i, k \in JobRows :
        /\ i < k /\ SameKey(jobs[i], jobs[k])
        /\ jobs[i].state \in {"failed", "dead", "succeeded"}
        /\ jobs[k].state \in {"queued", "processing"}

\* C2: claimNext is mutually exclusive: no two workers hold the same job as
\* the one their claimNextJob call returned.
C2_MutualExclusion ==
    \A w1, w2 \in Workers :
        (w1 # w2 /\ wk[w1].pc = "claimed" /\ wk[w2].pc = "claimed")
            => Val(wk[w1].job).id # Val(wk[w2].job).id

\* one call has returned the job while another call that selected the same
\* job has its UPDATE still to run
C2_Witness ==
    \E w1, w2 \in Workers :
        /\ w1 # w2
        /\ wk[w1].pc = "claimed" /\ wk[w2].pc = "selected"
        /\ Val(wk[w1].job).id = Val(wk[w2].sel).id

EnqDone(e) == enq[e].pc = "done"
EnqSameKey(e1, e2) == enq[e1].file = enq[e2].file /\ enq[e1].content = enq[e2].content

\* C3: two concurrent enqueue calls with the same file_id and payload leave
\* one job row for that key and return the same job_id.
C3_IdempotentEnqueue ==
    \A e1, e2 \in Enqueuers :
        (e1 # e2 /\ EnqDone(e1) /\ EnqDone(e2) /\ EnqSameKey(e1, e2))
            => /\ enq[e1].jobId # Null
               /\ enq[e1].jobId = enq[e2].jobId
               /\ Cardinality({i \in JobRows :
                    /\ jobs[i].file_id = Val(enq[e1].file)
                    /\ jobs[i].payload = Val(enq[e1].content)}) = 1

\* both calls have returned, one as the inserter and one as already_queued
C3_Witness ==
    \E e1, e2 \in Enqueuers :
        /\ e1 # e2 /\ EnqDone(e1) /\ EnqDone(e2) /\ EnqSameKey(e1, e2)
        /\ enq[e1].status = Some("enqueued")
        /\ enq[e2].status = Some("already_queued")

\* the returned calls of one (model, period, window)
CallsOf(m, period, window) ==
    {c \in Clients : /\ rl[c].pc = "done"
                     /\ rl[c].model = Some(m) /\ rl[c].period = Some(period)
                     /\ rl[c].window = window}

AllowedOf(m, period, window) ==
    {c \in CallsOf(m, period, window) : Val(rl[c].res).allowed}

Min(a, b) == IF a <= b THEN a ELSE b

\* C4: of the non-overlapping tryConsume(m, minute) calls of one minute
\* window, exactly min(number of calls, per_minute_limit) are allowed; so
\* never more than the limit, and one of two when the limit is 1.
C4_SequentialLimit ==
    \A c \in Clients :
        (rl[c].pc = "done" /\ rl[c].period = Some("minute"))
            => LET m == Val(rl[c].model) IN
               Cardinality(AllowedOf(m, "minute", rl[c].window))
                 = Min(Cardinality(CallsOf(m, "minute", rl[c].window)),
                       Models[m].per_minute_limit)

\* with per_minute_limit = 1, two calls of one window: one allowed, one refused
C4_Witness ==
    \E c1, c2 \in Clients :
        /\ c1 # c2
        /\ rl[c1].pc = "done" /\ rl[c2].pc = "done"
        /\ rl[c1].model = Some("mA") /\ rl[c2].model = Some("mA")
        /\ rl[c1].period = Some("minute") /\ rl[c2].period = Some("minute")
        /\ rl[c1].window = rl[c2].window
        /\ Val(rl[c1].res).allowed /\ ~Val(rl[c2].res).allowed

RECURSIVE SumUsed(_)
SumUsed(rows) ==
    IF rows = {} THEN 0
    ELSE LET i == CHOOSE x \in rows : TRUE IN
         rate_counters[i].used_count + SumUsed(rows \ {i})

\* the used_count stored for one (model, period, window)
TotalUsed(m, period, window) == SumUsed(CounterRows(m, period, window))

C6_D3 ==
    \A i \in JobRows :
        /\ jobs[i].attempts <= jobs[i].max_attempts
        /\ jobs[i].state = "queued" => jobs[i].attempts < jobs[i].max_attempts

\* C7 (D2): locked_at and worker_id are both non-null exactly when the
\* job's state is processing.
C7_D2 ==
    \A i \in JobRows :
        /\ (jobs[i].locked_at # Null /\ jobs[i].worker_id # Null)
                <=> jobs[i].state = "processing"
        /\ (jobs[i].locked_at = Null) <=> (jobs[i].worker_id = Null)

\* a claimed job is locked, one job was completed and another was recovered
C7_Witness ==
    \E i, k \in JobRows :
        /\ jobs[i].state = "failed" /\ jobs[i].error = Some("Job timed out")
        /\ jobs[i].locked_at = Null
        /\ jobs[k].state = "processing" /\ jobs[k].worker_id # Null

\* C8: a job that fails on every processing cycle (its payload has no
\* extractable content) is not re-enqueued forever: it eventually is dead.
C8_EventuallyDead ==
    \A id \in 1..MaxJobs :
        [](((HasJob(id) /\ JobById(id).payload = "noblocks"
                /\ JobById(id).state = "processing"))
            => <>(~HasJob(id) \/ JobById(id).state = "dead"))

FailStep(w) == wk[w].pc = "fail" /\ wk'[w].pc = "loop"

\* C9: a failure for lack of extractable content takes the job to dead, on
\* the first failure and whatever attempts and max_attempts are.
C9_NoContentIsDead ==
    [][\A w \in Workers :
        (FailStep(w) /\ wk[w].err = Some("NoExtractableContent")
            /\ HasJob(Val(wk[w].job).id))
            => (db'.jobs)[CHOOSE i \in JobRows :
                    jobs[i].id = Val(wk[w].job).id].state = "dead"]_vars

\* C10: the worker re-enqueues a failed job only if the stored attempts are
\* below max_attempts at that moment, and marks it dead otherwise.
C10_RequeueOnlyWithAttemptsLeft ==
    [][\A w \in Workers :
        (FailStep(w) /\ HasJob(Val(wk[w].job).id))
            => LET i == CHOOSE x \in JobRows : jobs[x].id = Val(wk[w].job).id IN
               /\ (jobs[i].state = "processing" /\ (db'.jobs)[i].state = "queued")
                    => jobs[i].attempts < jobs[i].max_attempts
               /\ (jobs[i].state = "processing"
                    /\ jobs[i].attempts >= jobs[i].max_attempts)
                    => (db'.jobs)[i].state = "dead"]_vars

(* ------------------------------------------------------------------ *)
(* A job-processing task and another user of the shared connection     *)
(* ------------------------------------------------------------------ *)
\* processJob of worker w1 on jobs with extractable content (one processing
\* cycle each, maxAttempts = 1), while a second task of the process (client
\* c1: the dispatch of another processJob) calls checkAndIncrementRateLimit
NextPool ==
    \/ EnqueueCheck("e1", "f1", "blocks", DefaultPriority, 1)
    \/ EnqueueInsert("e1") \/ EnqueueRecheck("e1") \/ EnqueueReturn("e1")
    \/ ClaimSelect("w1") \/ ClaimUpdate("w1") \/ ProcessStart("w1")
    \/ WorkerStep("w1")
    \/ ClientCall("c1") \/ RateLimitStep("c1")
    \/ UnhandledError("w1") \/ UnhandledError("c1")

SpecPool == Init /\ [][NextPool]_vars

AttemptRows(jobId) ==
    {k \in 1..Len(job_attempts) : job_attempts[k].job_id = jobId}

IncrementInFlight == \E w \in Workers : wk[w].pc \in {"inc_select", "inc_insert"}

\* C11: whenever no incrementJobAttempt call is between its statements,
\* every job's attempts equals the number of its job_attempts rows.
C11_AttemptsMatchRows ==
    ~IncrementInFlight =>
        \A i \in JobRows :
            jobs[i].attempts = Cardinality(AttemptRows(jobs[i].id))

(* ------------------------------------------------------------------ *)
(* claimNextJob over jobs of different priorities and ages             *)
(* ------------------------------------------------------------------ *)
ClaimPriorities == {1, 2}

NextClaim ==
    \/ \E e \in Enqueuers, f \in Files, c \in Payloads, p \in ClaimPriorities :
            EnqueueCheck(e, f, c, p, DefaultMaxAttempts)
    \/ \E e \in Enqueuers : EnqueueInsert(e) \/ EnqueueRecheck(e) \/ EnqueueReturn(e)
    \/ ClaimSelect("w1") \/ ClaimUpdate("w1") \/ StoreComplete("w1")
    \/ Tick

SpecClaim == Init /\ [][NextClaim]_vars

\* row a is ahead of row b in ORDER BY priority DESC, created_at ASC
Ahead(a, b) ==
    \/ a.priority > b.priority
    \/ a.priority = b.priority /\ TextLess(a.created_at, b.created_at)

QueuedAhead(jobId) ==
    {k \in JobRows : /\ jobs[k].state = "queued"
                     /\ jobs[k].id # jobId
                     /\ Ahead(jobs[k], JobById(jobId))}

\* C12 as stated: at the moment a job is claimed (the UPDATE that makes it
\* processing) no queued job is of higher priority, or of equal priority
\* and older.
C12_OrderAtClaim ==
    [][\A w \in Workers :
        (wk[w].pc = "selected" /\ wk'[w].pc = "claimed")
            => QueuedAhead(Val(wk[w].sel).id) = {}]_vars

\* C12 amended: the job claimNextJob selects is first in priority and age
\* among the jobs queued at its SELECT, and the job it then claims is the
\* selected one, still queued.
C12_OrderAtSelect ==
    [][\A w \in Workers :
        /\ (wk[w].pc = "loop" /\ wk'[w].pc = "selected")
            => /\ HasJob(Val(wk'[w].sel).id)
               /\ JobById(Val(wk'[w].sel).id).state = "queued"
               /\ QueuedAhead(Val(wk'[w].sel).id) = {}
        /\ (wk[w].pc = "selected" /\ wk'[w].pc = "claimed")
            => /\ wk'[w].job = wk[w].sel
               /\ JobById(Val(wk[w].sel).id).state = "queued"]_vars

\* a worker holds the priority-2 job it claimed although an older job of
\* priority 1 is still queued
C12_Witness ==
    \E w \in Workers, k \in JobRows :
        /\ wk[w].pc = "claimed"
        /\ HasJob(Val(wk[w].job).id)
        /\ JobById(Val(wk[w].job).id).priority = 2
        /\ jobs[k].state = "queued" /\ jobs[k].priority = 1
        /\ TextLess(jobs[k].created_at, JobById(Val(wk[w].job).id).created_at)

\* the succeeded jobs of one (file_id, payload)
SucceededRows(f, c) ==
    {i \in JobRows : /\ jobs[i].file_id = f /\ jobs[i].payload = c
                     /\ jobs[i].state = "succeeded"}

\* C13: an enqueue of a (file_id, payload) that has a succeeded job returns
\* already_completed with a succeeded job's id and result, and goes on to
\* no INSERT.
C13_DedupOnSuccess ==
    [][\A e \in Enqueuers :
        (enq[e].pc = "idle" /\ enq'[e].pc # "idle"
            /\ SucceededRows(Val(enq'[e].file), Val(enq'[e].content)) # {})
        => /\ enq'[e].pc = "done"
           /\ enq'[e].status = Some("already_completed")
           /\ \E i \in SucceededRows(Val(enq'[e].file), Val(enq'[e].content)) :
                /\ enq'[e].jobId = Some(jobs[i].id)
                /\ enq'[e].result = jobs[i].result]_vars

(* ------------------------------------------------------------------ *)
(* Stale recovery                                                      *)
(* ------------------------------------------------------------------ *)
\* producers, the periodic cleanup and polling workers; a worker that has
\* claimed a job crashes: it never completes the job nor claims another
NextCrash ==
    \/ \E e \in Enqueuers, f \in Files, c \in Payloads :
            EnqueueCheck(e, f, c, DefaultPriority, DefaultMaxAttempts)
    \/ \E e \in Enqueuers : EnqueueInsert(e) \/ EnqueueRecheck(e) \/ EnqueueReturn(e)
    \/ \E w \in Workers : ClaimSelect(w) \/ ClaimUpdate(w)
    \/ PerformCleanup

SpecCrash ==
    /\ Init /\ [][NextCrash]_vars
    /\ WF_vars(PerformCleanup)
    /\ WF_vars(\E w \in Workers : ClaimSelect(w))
    /\ WF_vars(\E w \in Workers : ClaimUpdate(w))

TimedOut(id) ==
    /\ HasJob(id)
    /\ JobById(id).state = "failed"
    /\ JobById(id).error = Some("Job timed out")

\* C14: a job that cleanupStaleJobs moved to failed and that has attempts
\* left is eventually queued again or claimed by a worker.
C14_RecoveredJobRuns ==
    \A id \in 1..MaxJobs :
        [](( TimedOut(id) /\ JobById(id).attempts < JobById(id).max_attempts)
            => <>(HasJob(id) /\ JobById(id).state \in {"queued", "processing"}))

\* a step of cleanupStaleJobs that changed a row
CleanupStep ==
    \E i \in JobRows :
        /\ jobs[i].state = "processing"
        /\ (db'.jobs)[i].state = "failed"
        /\ (db'.jobs)[i].error = Some("Job timed out")

\* the lock was taken more than `timeoutMinutes` before now
LockOlderThan(row, timeoutMinutes) ==
    /\ row.state = "processing"
    /\ row.locked_at # Null
    /\ Val(row.locked_at).t < now - timeoutMinutes

\* C15: cleanupStaleJobs(10) changes exactly the processing jobs whose lock
\* is older than now - 10 minutes and leaves every other job as it is.
C15_CleanupFrame ==
    [][CleanupStep =>
        \A i \in JobRows :
            ((db'.jobs)[i] # jobs[i]) <=> LockOlderThan(jobs[i], StaleTimeoutMin)]_vars

(* ------------------------------------------------------------------ *)
(* Provider backoff over time                                          *)
(* ------------------------------------------------------------------ *)
\* the clock moves on by the length of the service backoff
BackoffTick ==
    /\ now + ServiceBackoffMin <= started + MaxTicks * ServiceBackoffMin
    /\ now' = now + ServiceBackoffMin
    /\ UNCHANGED <<started, env, registry, qw, db, tx, uuids, enq, wk, rl>>

\* one enqueuer and one worker while time passes
NextGate ==
    \/ \E m \in MaxAttemptsChoices :
            EnqueueCheck("e1", "f1", "blocks", DefaultPriority, m)
    \/ EnqueueInsert("e1") \/ EnqueueRecheck("e1") \/ EnqueueReturn("e1")
    \/ ClaimSelect("w1") \/ ClaimUpdate("w1") \/ ProcessStart("w1")
    \/ WorkerStep("w1")
    \/ PerformCleanup
    \/ BackoffTick

SpecGate == Init /\ [][NextGate]_vars

\* the backoff's until instant is later than the current instant
BackoffActive(p) ==
    /\ provider_backoff[p] # Null
    /\ Val(provider_backoff[p]).until.t > now

Listed(m) == \E i \in 1..Len(GetAvailableModels) : GetAvailableModels[i] = m

\* C16: getAvailableModels omits a provider's models exactly while the
\* provider's until instant is later than now, and lists them from until on.
C16_GatedExactlyUntil ==
    \A m \in ModelIds : Listed(m) <=> ~BackoffActive(Models[m].provider_id)

(* ------------------------------------------------------------------ *)
(* Failover inside one summarizeContent call                           *)
(* ------------------------------------------------------------------ *)
\* the job_attempts rows written for the job of worker w since w claimed it
\* (the rows of the current summarizeContent call), in insertion order
DispatchRows(w) ==
    SelectSeq(job_attempts,
              LAMBDA r : /\ r.job_id = Val(wk[w].job).id
                         /\ r.attempt_no > Val(wk[w].job).attempts)

\* (provider priority ascending, model id ascending), strictly
StrictlyEarlier(m1, m2) ==
    LET p1 == Providers[Models[m1].provider_id].priority
        p2 == Providers[Models[m2].provider_id].priority IN
    \/ p1 < p2
    \/ p1 = p2 /\ ModelIdLess(m1, m2)

\* summarizeContent has returned a text for the job of worker w
Returned(w) == wk[w].pc = "callback"

\* failure rows, then one success row, the models in candidate order
FailuresThenSuccess(rows) ==
    /\ Len(rows) >= 1
    /\ rows[Len(rows)].success
    /\ \A k \in 1..(Len(rows) - 1) :
        /\ ~rows[k].success
        /\ StrictlyEarlier(rows[k].model_id, rows[k + 1].model_id)

UsedBy(m, period) ==
    SumUsed({i \in 1..Len(rate_counters) :
                /\ rate_counters[i].model_id = m
                /\ rate_counters[i].period = period})

\* the model of the candidate worker w is at
CurrentCandidate(w) == wk[w].cands[wk[w].idx]

\* upstream calls on model m: those recorded in job_attempts and those
\* sent whose row is not yet written
Dispatched(m) ==
    Cardinality({k \in 1..Len(job_attempts) : job_attempts[k].model_id = m})
    + Cardinality({w \in Workers :
                    /\ wk[w].pc \in {"upstream", "inc_select", "inc_insert"}
                    /\ CurrentCandidate(w) = m})

\* a worker is between the minute check and the upstream call of m
CheckingCandidate(m) ==
    \E w \in Workers : wk[w].pc \in {"minute", "day"} /\ CurrentCandidate(w) = m

\* C18: outside the rate checks of a candidate step, the quota consumed from
\* a model's minute counters and from its day counters is covered by the
\* upstream calls dispatched on that model; a skipped candidate has consumed
\* nothing.
C18_QuotaOnlyWhenDispatched ==
    \A m \in ModelIds, period \in Periods :
        ~CheckingCandidate(m) => UsedBy(m, period) <= Dispatched(m)

(* ------------------------------------------------------------------ *)
(* The refused rate check                                              *)
(* ------------------------------------------------------------------ *)
\* the ROLLBACK of the refused call c runs and the call is over
RefusedEnds(c) ==
    /\ rl[c].pc = "rollback"
    /\ rl'[c].pc = "done"
    /\ ~Val(rl'[c].res).allowed

Stop(w) ==
    /\ qw[w].isRunning
    /\ qw' = [qw EXCEPT ![w].isRunning = FALSE,
                ![w].stop = IF ActiveJobsSize(w) > 0 THEN "waiting" ELSE "resolved"]
    /\ UNCHANGED <<now, started, env, registry, db, tx, uuids, enq, wk, rl>>

\* the waiting loop of stop() finds activeJobs empty and the call resolves
StopWait(w) ==
    /\ qw[w].stop = "waiting"
    /\ ActiveJobsSize(w) = 0
    /\ qw' = [qw EXCEPT ![w].stop = "resolved"]
    /\ UNCHANGED <<now, started, env, registry, db, tx, uuids, enq, wk, rl>>

\* one worker that is stopped at some point; its cleanup timer runs until then
NextStop ==
    \/ \E e \in {"e1"} : EnqueueStep(e)
    \/ \E w \in {"w1"} : ClaimSelect(w) \/ ClaimUpdate(w) \/ ProcessStart(w)
    \/ \E w \in {"w1"} : WorkerStep(w)
    \/ qw["w1"].isRunning /\ PerformCleanup
    \/ Stop("w1") \/ StopWait("w1")

SpecStop == Init /\ [][NextStop]_vars

\* the claiming UPDATE of worker w takes a job
Claims(w) == wk[w].pc = "selected" /\ wk'[w].pc = "claimed"

\* C20: once stop() has been called the worker claims no further job, and
\* once stop() has resolved no processJob of the worker is active.
C20_ShutdownDrains ==
    /\ [][\A w \in Workers : qw[w].stop # "none" => ~Claims(w)]_vars
    /\ [](\A w \in Workers : qw[w].stop = "resolved" => ActiveJobsSize(w) = 0)

(* ------------------------------------------------------------------ *)
(* Terminal job states                                                 *)
(* ------------------------------------------------------------------ *)
TerminalStates == {"dead", "succeeded"}

\* the job of row i is in the next state what it is now
KeepsState(i) ==
    \E k \in 1..Len(jobs') :
        jobs'[k].id = jobs[i].id /\ jobs'[k].state = jobs[i].state

\* C21: no step of the program changes the state of a job that is dead or
\* succeeded.
C21_TerminalStaysTerminal ==
    [][\A i \in JobRows : jobs[i].state \in TerminalStates => KeepsState(i)]_vars

(* ------------------------------------------------------------------ *)
(* The callback's answer                                               *)
(* ------------------------------------------------------------------ *)
\* the HTTP statuses of the 2xx class among the callback's answers
Is2xx(status) == status \in {"200", "204"}

\* sendSummaryToClient returned false for the job of worker w
CallbackFailed(w) == wk[w].pc = "fail" /\ wk[w].status # Null

\* the job of row i becomes succeeded in this step
BecomesSucceeded(i) ==
    /\ jobs[i].state # "succeeded"
    /\ \E k \in 1..Len(jobs') :
        jobs'[k].id = jobs[i].id /\ jobs'[k].state = "succeeded"

\* C22: a job becomes succeeded only when its worker holds the router's
\* summary and the callback returns, with the summary as result, and a
\* callback answered with a 2xx status is never treated as a failure.
C22_SucceededIffCallback2xx ==
    /\ [][\A i \in JobRows : BecomesSucceeded(i) =>
            \E w \in Workers :
                /\ wk[w].pc = "callback"
                /\ Val(wk[w].job).id = jobs[i].id
                /\ wk[w].summary # Null
                /\ \E k \in 1..Len(jobs') :
                    jobs'[k].id = jobs[i].id /\ jobs'[k].result = wk[w].summary]_vars
    /\ [](\A w \in Workers : CallbackFailed(w) => ~Is2xx(Val(wk[w].status)))

(* ------------------------------------------------------------------ *)
(* attempt_no of the job_attempts rows                                 *)
(* ------------------------------------------------------------------ *)
\* C23: the job_attempts rows of one job carry strictly increasing
\* attempt_no values in insertion order.
C23_AttemptNoIncreasing ==
    \A k1, k2 \in 1..Len(job_attempts) :
        (k1 < k2 /\ job_attempts[k1].job_id = job_attempts[k2].job_id)
            => job_attempts[k1].attempt_no < job_attempts[k2].attempt_no

(* ------------------------------------------------------------------ *)
(* max_attempts = 1                                                    *)
(* ------------------------------------------------------------------ *)
\* the job with this id is in the given state after the step
StateAfter(jobId, state) ==
    \E k \in 1..Len(jobs') : jobs'[k].id = jobId /\ jobs'[k].state = state

\* C24: with max_attempts = 1 the catch block of the first failed processing
\* cycle leaves the job dead, and a job with max_attempts = 1 that has left
\* the queue never gets back into it.
C24_SingleAttemptDies ==
    [][/\ \A w \in Workers :
            (FailStep(w) /\ Val(wk[w].job).max_attempts = 1)
                => StateAfter(Val(wk[w].job).id, "dead")
       /\ \A i \in JobRows :
            (jobs[i].max_attempts = 1 /\ jobs[i].state # "queued")
                => ~StateAfter(jobs[i].id, "queued")]_vars

\* a job with max_attempts = 1 is dead after its processing cycle failed
C24_Witness ==
    \E i \in JobRows :
        /\ jobs[i].max_attempts = 1
        /\ jobs[i].state = "dead"
        /\ jobs[i].error # Null

(* ------------------------------------------------------------------ *)
(* One provider, one model, max_attempts = 2                           *)
(* ------------------------------------------------------------------ *)
\* one producer of jobs with max_attempts = 2 and one worker, on a
\* configuration with the single model mA, while time passes
NextDead ==
    \/ EnqueueCheck("e1", "f1", "blocks", DefaultPriority, 2)
    \/ EnqueueInsert("e1") \/ EnqueueRecheck("e1") \/ EnqueueReturn("e1")
    \/ ClaimSelect("w1") \/ ClaimUpdate("w1") \/ ProcessStart("w1")
    \/ WorkerStep("w1")
    \/ PerformCleanup
    \/ BackoffTick

SpecDead == InitOneModel /\ [][NextDead]_vars

\* every upstream call made for the job was answered with a 5xx error
OnlyServerErrors(jobId) ==
    \A k \in AttemptRows(jobId) : job_attempts[k].error = Some("e503")

\* C25: with one provider and one model, max_attempts = 2 and an upstream
\* that answers every call with a 5xx error, a job that is dead has exactly
\* two job_attempts rows.
C25_DeadAfterMax ==
    \A i \in JobRows :
        (/\ jobs[i].max_attempts = 2
         /\ jobs[i].state = "dead"
         /\ OnlyServerErrors(jobs[i].id))
            => Cardinality(AttemptRows(jobs[i].id)) = 2

(* ------------------------------------------------------------------ *)
(* No candidates                                                       *)
(* ------------------------------------------------------------------ *)
\* no enabled model of an enabled provider that is not gated
NoActiveModel ==
    \A m \in ModelIds :
        \/ m \notin RegisteredIds
        \/ ~Models[m].enabled
        \/ ~Providers[Models[m].provider_id].enabled
        \/ Gated(Models[m].provider_id)

\* worker w is about to read the listing, in processJob or in the router
ReadsListing(w) == wk[w].pc \in {"config", "route"} /\ wk'[w] # wk[w]

\* C26: when no model is active, the step that reads the listing fails the
\* dispatch with the no-models error and leaves every table and the
\* worker's rate check as they are: no upstream call, no quota, no
\* job_attempts row.
C26_NoCandidates ==
    [][\A w \in Workers : (ReadsListing(w) /\ NoActiveModel) =>
            /\ wk'[w].pc = "fail"
            /\ wk'[w].err = Some("NoModels")
            /\ rl'[w] = rl[w]
            /\ db' = db]_vars

\* a dispatch failed for lack of candidates while every provider was gated
C26_Witness ==
    \E w \in Workers :
        /\ wk[w].pc = "fail"
        /\ wk[w].err = Some("NoModels")
        /\ NoActiveModel

(* ------------------------------------------------------------------ *)
(* The day window                                                      *)
(* ------------------------------------------------------------------ *)
\* caller c starts a call on a day counter
CallsDay(c) ==
    rl[c].pc = "idle" /\ rl'[c].pc = "begin" /\ rl'[c].period = Some("day")

\* C27: a day call counts in the window of the UTC date of the call; of the
\* non-overlapping day calls of one window exactly min(number of calls,
\* per_day_limit) are allowed, so a counter at the limit refuses for the rest
\* of that date, and the counter of every date starts at 1 with its first
\* call whatever the counter of the date before.
C27_DayBoundary ==
    /\ [][\A c \in Clients : CallsDay(c) => rl'[c].window = DayOf(now)]_vars
    /\ [](\A c \in Clients :
            (rl[c].pc = "done" /\ rl[c].period = Some("day")) =>
                LET m == Val(rl[c].model)
                    allowed == AllowedOf(m, "day", rl[c].window) IN
                /\ Cardinality(allowed)
                    = Min(Cardinality(CallsOf(m, "day", rl[c].window)),
                          Models[m].per_day_limit)
                /\ NoCallInFlight =>
                    TotalUsed(m, "day", rl[c].window) = Cardinality(allowed)
                /\ (allowed = {c}) => Val(rl[c].res).count = 1)

\* the counter of one date is at the limit and the first call of the next
\* date is allowed with a count of 1
C27_Witness ==
    \E c1, c2, c3 \in Clients :
        /\ c1 # c2
        /\ \A c \in {c1, c2, c3} :
            /\ rl[c].pc = "done"
            /\ rl[c].model = Some("mA") /\ rl[c].period = Some("day")
            /\ Val(rl[c].res).allowed
        /\ rl[c1].window = rl[c2].window
        /\ rl[c3].window = rl[c1].window + 1
        /\ Val(rl[c3].res).count = 1
        /\ TotalUsed("mA", "day", rl[c1].window) = Models["mA"].per_day_limit

(* ------------------------------------------------------------------ *)
(* Error classes and provider backoff                                  *)
(* ------------------------------------------------------------------ *)
\* one producer and one worker; the upstream answers with any of the errors
NextErrors ==
    \/ EnqueueCheck("e1", "f1", "blocks", DefaultPriority, 1)
    \/ EnqueueInsert("e1") \/ EnqueueRecheck("e1") \/ EnqueueReturn("e1")
    \/ ClaimSelect("w1") \/ ClaimUpdate("w1") \/ ProcessStart("w1")
    \/ ConfigSummary("w1") \/ RouteSnapshot("w1")
    \/ MinuteResult("w1") \/ DayResult("w1") \/ RateLimitStep("w1")
    \/ UpstreamReturnAny("w1")
    \/ IncSelect("w1") \/ IncInsert("w1") \/ Backoff("w1")
    \/ CallbackReturn("w1") \/ ProcessFail("w1")
    \/ PerformCleanup

SpecErrors == Init /\ [][NextErrors]_vars

\* the error worker w got from the upstream for its current candidate
ErrorAt(w) == UpstreamErrors[Val(wk[w].outcome)]

\* the step that ends the handling of a failed candidate of worker w: the
\* attempt is recorded and handleModelError has returned
HandlesError(w) ==
    /\ wk[w].pc \in {"inc_insert", "backoff"}
    /\ wk[w].outcome # Some("ok")
    /\ wk'[w].pc \notin {"inc_insert", "backoff"}

\* after the step the failing provider is gated for this many minutes from now
BackoffSet(w, minutes) ==
    LET p == Models[CurrentCandidate(w)].provider_id IN
    /\ provider_backoff'[p] # Null
    /\ Val(provider_backoff'[p]).until = IsoText(now + minutes)

\* the triggers of the classes as the specification lists them; a status
\* counts whether the error carries it as a field or in its message
AuthTrigger(e) ==
    \/ e.status \in {401, 403}
    \/ e.words \cap {"auth", "api key", "unauthorized"} # {}

QuotaTrigger(e) ==
    \/ e.status = 429 \/ Includes(e, "429")
    \/ e.words \cap {"quota", "rate limit"} # {}

TransientTrigger(o) ==
    \/ UpstreamErrors[o].status \in {500, 502, 503, 504}
    \/ Includes(UpstreamErrors[o], "service unavailable")
    \/ o = "timeout"

\* C28: an upstream failure with status 401 or 403, or whose message
\* contains 'auth', 'api key' or 'unauthorized', leaves the failing provider
\* with a backoff of 240 minutes.
C28_AuthBackoff ==
    [][\A w \in Workers : (HandlesError(w) /\ AuthTrigger(ErrorAt(w)))
            => BackoffSet(w, 240)]_vars

\* C29: an upstream failure with a Quota trigger leaves the failing provider
\* with a backoff of 60 minutes, and one with a Transient trigger (the
\* timeout of the upstream call included) with a backoff of 15 minutes.
C29_QuotaAndTransientBackoff ==
    [][\A w \in Workers : HandlesError(w) =>
            /\ QuotaTrigger(ErrorAt(w)) => BackoffSet(w, 60)
            /\ TransientTrigger(Val(wk[w].outcome)) => BackoffSet(w, 15)]_vars

\* the last job_attempts row after the step is the failure of the candidate
FailureRecorded(w) ==
    /\ Len(job_attempts') >= 1
    /\ LET r == job_attempts'[Len(job_attempts')] IN
        /\ r.job_id = Val(wk[w].job).id
        /\ r.model_id = CurrentCandidate(w)
        /\ ~r.success

\* the router goes on to the candidate after this one, or throws after the last
Continues(w) ==
    IF wk[w].idx < Len(wk[w].cands)
    THEN wk'[w].pc = "minute" /\ wk'[w].idx = wk[w].idx + 1
    ELSE wk'[w].pc = "fail"

\* C30: an upstream failure with none of the Quota, Auth and Transient
\* triggers (an empty text is one) leaves provider_backoff unchanged, has
\* its failed attempt recorded, and the router continues with the next
\* candidate.
C30_OtherErrorsNoBackoff ==
    [][\A w \in Workers :
        (/\ HandlesError(w)
         /\ ~QuotaTrigger(ErrorAt(w))
         /\ ~AuthTrigger(ErrorAt(w))
         /\ ~TransientTrigger(Val(wk[w].outcome)))
            => /\ provider_backoff' = provider_backoff
               /\ FailureRecorded(w)
               /\ Continues(w)]_vars

(* ------------------------------------------------------------------ *)
(* A prompt the upstream rejects as malformed                          *)
(* ------------------------------------------------------------------ *)
\* C31: when the upstream rejects the prompt as malformed (status 400), the
\* router tries no further candidate: the dispatch fails at once, and the
\* catch block of processJob then marks the job dead.
C31_InputInvalidIsFatal ==
    [][\A w \in Workers :
        /\ (HandlesError(w) /\ wk[w].outcome = Some("invalid"))
                => wk'[w].pc = "fail"
        /\ (FailStep(w) /\ wk[w].err = Some("InputInvalid"))
                => StateAfter(Val(wk[w].job).id, "dead")]_vars

(* ------------------------------------------------------------------ *)
(* One job_attempts row per upstream call                              *)
(* ------------------------------------------------------------------ *)
\* worker w is inside summarizeContent's loop
Routing(w) ==
    wk[w].pc \in {"minute", "day", "upstream", "inc_select", "inc_insert", "backoff"}

\* the upstream answered and incrementJobAttempt has not finished yet
Recording(w) == wk[w].pc \in {"inc_select", "inc_insert"}

\* the rate check of the current candidate refused and the loop continues
SkipsCandidate(w) ==
    /\ wk[w].pc \in {"minute", "day"}
    /\ rl[w].pc = "done"
    /\ ~Val(rl[w].res).allowed
    /\ wk'[w] # wk[w]

\* incrementJobAttempt of the current candidate's call finishes
RecordsCall(w) == wk[w].pc = "inc_insert" /\ wk'[w].pc # "inc_insert"

\* C32: a dispatch adds exactly one job_attempts row, and one to the job's
\* attempts, for each candidate whose upstream it called, and none for a
\* candidate skipped by its minute or day limit.
C32_OneRowPerUpstreamCall ==
    /\ [](\A w \in Workers : (Routing(w) /\ HasJob(Val(wk[w].job).id)) =>
            /\ JobById(Val(wk[w].job).id).attempts
                 = Val(wk[w].job).attempts + Len(DispatchRows(w))
                   + (IF Recording(w) THEN 1 ELSE 0)
            /\ \A k \in 1..Len(DispatchRows(w)) :
                /\ \E i \in 1..wk[w].idx :
                      wk[w].cands[i] = DispatchRows(w)[k].model_id
                /\ \A l \in 1..Len(DispatchRows(w)) :
                      DispatchRows(w)[l].model_id = DispatchRows(w)[k].model_id
                          => l = k)
    /\ [][\A w \in Workers :
            /\ SkipsCandidate(w) => db' = db
            /\ RecordsCall(w) =>
                /\ Len(DispatchRows(w)') = Len(DispatchRows(w)) + 1
                /\ DispatchRows(w)'[Len(DispatchRows(w)')].model_id
                       = CurrentCandidate(w)
                /\ \A k \in 1..Len(DispatchRows(w)) :
                       DispatchRows(w)[k].model_id # CurrentCandidate(w)
            /\ (Routing(w) /\ wk'[w] # wk[w] /\ ~RecordsCall(w)) =>
                   job_attempts' = job_attempts]_vars

\* the first candidate was skipped by its limit and the second one called:
\* the dispatch has one row, of the second candidate
C32_Witness ==
    \E w \in Workers :
        /\ wk[w].pc = "backoff"
        /\ wk[w].cands = <<"mA", "mB">>
        /\ wk[w].idx = 2
        /\ Len(DispatchRows(w)) = 1
        /\ DispatchRows(w)[1].model_id = "mB"
        /\ JobById(Val(wk[w].job).id).attempts = Val(wk[w].job).attempts + 1

(* ------------------------------------------------------------------ *)
(* What updateJobStatus writes                                         *)
(* ------------------------------------------------------------------ *)
\* the holder of a claimed job completes it in this step
Completes(w) == wk[w].pc = "claimed" /\ wk'[w].pc = "loop"

\* the row as the spec's completeJob(job, o, result, error) leaves it
CompletedRow(row, o) ==
    [row EXCEPT !.state = o,
                !.result = IF o = "succeeded" THEN Some("OK") ELSE Null,
                !.error = IF o = "succeeded" THEN Null ELSE Some("error"),
                !.locked_at = Null, !.worker_id = Null]

LoopProcessJob(w) ==
    /\ wk[w].pc = "claimed"
    /\ qw' = [qw EXCEPT ![w].activeJobs = @ \cup {Val(wk[w].job).id}]
    /\ wk' = [wk EXCEPT ![w] = WkIdle]
    /\ UNCHANGED <<now, started, env, registry, db, tx, uuids, enq, rl>>

\* a processJob call of worker w ends: updateJobStatus with its outcome,
\* then finally: activeJobs.delete
ProcessJobEnds(w) ==
    /\ \E id \in qw[w].activeJobs, o \in {"succeeded", "queued", "dead"} :
        /\ db' = [db EXCEPT !.jobs = UpdateJobStatus(id, o,
                    IF o = "succeeded" THEN Some("OK") ELSE Null,
                    IF o = "succeeded" THEN Null ELSE Some("error"))]
        /\ qw' = [qw EXCEPT ![w].activeJobs = @ \ {id}]
    /\ UNCHANGED <<now, started, env, registry, tx, uuids, enq, wk, rl>>

\* one worker whose loop runs beside the processJob calls it has started
NextLoop ==
    \/ \E e \in {"e1"} : EnqueueStep(e)
    \/ \E w \in {"w1"} : ClaimSelect(w) \/ ClaimUpdate(w) \/ LoopProcessJob(w)
    \/ \E w \in {"w1"} : ProcessJobEnds(w)
    \/ PerformCleanup

SpecLoop == Init /\ [][NextLoop]_vars

\* the loop of worker w issues claimNextJob in this step
IssuesClaim(w) == wk[w].pc = "loop" /\ wk'[w].pc = "selected"

\* C34: a worker never has more than Concurrency jobs in activeJobs, and its
\* loop issues claimNextJob only while activeJobs holds fewer than that.
C34_ActiveJobsBounded ==
    /\ [](\A w \in Workers : Cardinality(qw[w].activeJobs) <= Concurrency)
    /\ [][\A w \in Workers :
            IssuesClaim(w) => Cardinality(qw[w].activeJobs) < Concurrency]_vars

\* the worker is at capacity while another job is queued, and its loop is
\* back at the capacity check
C34_Witness ==
    \E w \in Workers :
        /\ Cardinality(qw[w].activeJobs) = Concurrency
        /\ wk[w].pc = "loop"
        /\ \E i \in JobRows : jobs[i].state = "queued"

(* ------------------------------------------------------------------ *)
(* setProviderBackoff on a provider that already has a row             *)
(* ------------------------------------------------------------------ *)
\* one producer and one worker, the two configured models being of one
\* provider; the upstream answers with any of the errors
SpecOneProvider == InitOneProvider /\ [][NextErrors]_vars

\* handleModelError of worker w calls setProviderBackoff in this step
SetsBackoff(w) == wk[w].pc = "backoff" /\ wk'[w].pc # "backoff"

\* the row that call writes
BackoffRowOf(w) ==
    [provider_id |-> Models[CurrentCandidate(w)].provider_id,
     until |-> IsoText(now + Val(HandleModelError(ErrorAt(w))).minutes),
     reason |-> Val(HandleModelError(ErrorAt(w))).reason]

\* C35: setProviderBackoff leaves exactly the row it was called with for its
\* provider, whatever row the provider had (a later until included), leaves
\* the other providers' rows alone, changes nothing when the table already
\* holds that row, and the table never has two rows of one provider.
C35_BackoffLastWriterWins ==
    /\ [](\A p \in ProviderIds :
            Cardinality({r \in ProviderBackoffRows : r.provider_id = p}) <= 1)
    /\ [][\A w \in Workers : SetsBackoff(w) =>
            /\ BackoffRowOf(w) \in ProviderBackoffRows'
            /\ \A r \in ProviderBackoffRows' :
                r.provider_id = BackoffRowOf(w).provider_id => r = BackoffRowOf(w)
            /\ \A r \in ProviderBackoffRows \cup ProviderBackoffRows' :
                r.provider_id # BackoffRowOf(w).provider_id
                    => (r \in ProviderBackoffRows <=> r \in ProviderBackoffRows')
            /\ BackoffRowOf(w) \in ProviderBackoffRows
                    => ProviderBackoffRows' = ProviderBackoffRows]_vars

\* the provider's four hour backoff of the first candidate's 401 was
\* replaced by the fifteen minute backoff of the second candidate's 503
C35_Witness ==
    \E w \in Workers :
        /\ wk[w].pc = "fail"
        /\ Len(DispatchRows(w)) = 2
        /\ DispatchRows(w)[1].error = Some("e401")
        /\ DispatchRows(w)[2].error = Some("e503")
        /\ ProviderBackoffRows =
            {[provider_id |-> "pA", until |-> IsoText(now + ServiceBackoffMin),
              reason |-> "Service unavailable"]}

(* ------------------------------------------------------------------ *)
(* Upstream calls on a provider in backoff                             *)
(* ------------------------------------------------------------------ *)
\* callAIModel of worker w sends the request for its current candidate
InvokesUpstream(w) == wk[w].pc = "day" /\ wk'[w].pc = "upstream"

\* C40: no upstream call goes to a model whose provider has a backoff that
\* has not expired, be it a later candidate of the dispatch that set the
\* backoff or a dispatch that read its candidates earlier.
C40_NoCallWhileGated ==
    [][\A w \in Workers : InvokesUpstream(w) =>
            ~BackoffActive(Models[CurrentCandidate(w)].provider_id)]_vars

(* ------------------------------------------------------------------ *)
(* upsertModel                                                         *)
(* ------------------------------------------------------------------ *)
\* a model of a provider that has no row in the providers table, as a
\* MODEL_CONFIG_<PROVIDER>_<MODEL> variable can name one
UnknownProviderRow ==
    [id |-> "mX", provider_id |-> "pX", per_minute_limit |-> 1,
     per_day_limit |-> 1, enabled |-> TRUE]

\* the argument lists upsertModel is called with
UpsertArgs == {ModelRow(m) : m \in ModelIds} \cup {UnknownProviderRow}

\* the configuration is written, model by model and again, while producers
\* enqueue
NextConfig ==
    \/ \E row \in UpsertArgs : UpsertModel(row)
    \/ \E e \in Enqueuers, f \in Files, c \in Payloads :
            EnqueueCheck(e, f, c, DefaultPriority, DefaultMaxAttempts)
    \/ \E e \in Enqueuers : EnqueueInsert(e) \/ EnqueueRecheck(e) \/ EnqueueReturn(e)

SpecConfig == Boot({}) /\ [][NextConfig]_vars

\* the rows of the models table, as a set
ModelsTable == {registry[k] : k \in 1..Len(registry)}

\* C36: the models table has one row per id and no row of a provider that
\* the providers table lacks; a step that changes it is an upsert that leaves
\* its row in place of the row of that id and the other rows as they were,
\* so that an upsert of a row the table already holds changes no row.
C36_UpsertModel ==
    /\ [](/\ \A i, k \in 1..Len(registry) : registry[i].id = registry[k].id => i = k
          /\ \A r \in ModelsTable : r.provider_id \in ProviderIds)
    /\ [][registry' # registry =>
            \E row \in UpsertArgs :
                /\ row.provider_id \in ProviderIds
                /\ ModelsTable' = {r \in ModelsTable : r.id # row.id} \cup {row}
                /\ row \in ModelsTable => ModelsTable' = ModelsTable]_vars

\* every model of the configuration has its row, the first model's row
\* being the one written last
C36_Witness ==
    /\ Len(registry) = 3
    /\ ModelsTable = {ModelRow(m) : m \in ModelIds}
    /\ registry[3] = ModelRow("mA")

(* ------------------------------------------------------------------ *)
(* enqueueJob beside failed and dead jobs, and the lost insert race    *)
(* ------------------------------------------------------------------ *)
\* the rows of the key of the call of producer e, in the next state's terms
SameKeyRows(e) ==
    {i \in JobRows : /\ jobs[i].dedupe_key = Val(enq'[e].file)
                     /\ jobs[i].content_hash = GenerateContentHash(Val(enq'[e].content))}

\* the call of producer e starts and finds only failed or dead jobs of its key
ChecksBesideFailed(e) ==
    /\ enq[e].pc = "idle" /\ enq'[e].pc # "idle"
    /\ SameKeyRows(e) # {}
    /\ \A i \in SameKeyRows(e) : jobs[i].state \in {"failed", "dead"}

\* the INSERT of producer e adds its row
Inserts(e) == enq[e].pc = "insert" /\ enq'[e].pc = "done"

\* the second check query of producer e, after its INSERT was refused, ends
RechecksAfterRace(e) == enq[e].pc = "constraint" /\ enq'[e].pc = "done"

\* C37: an enqueue that finds only failed or dead jobs of its key goes on to
\* the INSERT; an INSERT that is accepted adds a queued job with attempts 0
\* under an id no job has and returns enqueued with that id; a call whose
\* INSERT the unique index refused returns already_queued with the id of a
\* job of its key and no error.
C37_EnqueueBesideFailedAndRace ==
    [][\A e \in Enqueuers :
        /\ ChecksBesideFailed(e) => enq'[e].pc = "insert"
        /\ Inserts(e) =>
            /\ Len(jobs') = Len(jobs) + 1
            /\ SubSeq(jobs', 1, Len(jobs)) = jobs
            /\ jobs'[Len(jobs')].state = "queued"
            /\ jobs'[Len(jobs')].attempts = 0
            /\ ~HasJob(jobs'[Len(jobs')].id)
            /\ enq'[e].status = Some("enqueued")
            /\ enq'[e].jobId = Some(jobs'[Len(jobs')].id)
        /\ RechecksAfterRace(e) =>
            /\ enq'[e].status = Some("already_queued")
            /\ \E i \in SameKeyRows(e) : enq'[e].jobId = Some(jobs[i].id)]_vars

(* ------------------------------------------------------------------ *)
(* No usable INTERNAL_SECRET                                           *)
(* ------------------------------------------------------------------ *)
\* one producer and one worker of a process whose INTERNAL_SECRET is unset
\* or the default
SpecNoSecret == InitNoSecret /\ [][Next]_vars

\* sendSummaryToClient of worker w returns in this step
CallbackEnds(w) == wk[w].pc = "callback" /\ wk'[w].pc # "callback"

\* C38: without a usable INTERNAL_SECRET no callback request gets an answer
\* (none is sent), no job is ever succeeded, and every job that reaches the
\* callback fails there and is requeued or marked dead by the catch block's
\* rule (a requeue the unique index refuses leaves the job failed).
C38_NoSecretNoSuccess ==
    /\ [](/\ \A i \in JobRows : jobs[i].state # "succeeded"
          /\ \A w \in Workers : wk[w].status = Null)
    /\ [][\A w \in Workers :
            /\ CallbackEnds(w) =>
                /\ wk'[w].pc = "fail"
                /\ wk'[w].err = Some("CallbackFailed")
                /\ db' = db
            /\ FailStep(w) =>
                IF ShouldRetry(Val(wk[w].job))
                THEN \/ StateAfter(Val(wk[w].job).id, "queued")
                     \/ (jobs' = jobs /\ StateAfter(Val(wk[w].job).id, "failed"))
                ELSE StateAfter(Val(wk[w].job).id, "dead")]_vars

\* the router returned summaries that could not be delivered: one job is
\* dead and another is back in the queue, both with upstream calls recorded
C38_Witness ==
    \E i, k \in JobRows :
        /\ jobs[i].state = "dead" /\ jobs[i].error = Some("CallbackFailed")
        /\ jobs[k].state = "queued" /\ jobs[k].error = Some("CallbackFailed")
        /\ \E r \in 1..Len(job_attempts) :
            job_attempts[r].job_id = jobs[i].id /\ job_attempts[r].success

(* ------------------------------------------------------------------ *)
(* A completion that arrives after the stale recovery                  *)
(* ------------------------------------------------------------------ *)
\* cleanupStaleJobs has failed the job and nothing has touched it since
Recovered(jobId) ==
    /\ HasJob(jobId)
    /\ JobById(jobId).state = "failed"
    /\ JobById(jobId).error = Some("Job timed out")

\* C39: when the worker that had claimed a job completes it after
\* cleanupStaleJobs has failed it, the job's state, result and error stay
\* as the recovery left them.
C39_LateCompletionIgnored ==
    [][\A w \in Workers :
        (Completes(w) /\ Recovered(Val(wk[w].job).id)) =>
            \E k \in 1..Len(jobs') :
                /\ jobs'[k].id = Val(wk[w].job).id
                /\ jobs'[k].state = "failed"
                /\ jobs'[k].result = JobById(Val(wk[w].job).id).result
                /\ jobs'[k].error = Some("Job timed out")]_vars

====
